---------------------------- MODULE Spec2Model ----------------------------
(***************************************************************************)
(* Model of the chatbot backend (backend/main.py, backend/openai_client.py)*)
(*                                                                         *)
(* Strings are sequences of tokens.  A token is one character, except that *)
(* a fixed literal of the program is a single token:                       *)
(*   "S"  stands for the 22 characters  "specificationGroups":  (quotes    *)
(*        and colon included), the part of search_term before its '['.     *)
(*        That literal has no proper border and contains no bracket, so    *)
(*        occurrences of search_term cannot overlap each other and         *)
(*        treating it as one token loses no match.                         *)
(* Positions are 0-based, as in the Python source.                         *)
(***************************************************************************)
EXTENDS Integers, Sequences, FiniteSets, TLC

VARIABLES
    text,           \* extractor: the argument of the call under study
    start,          \* extractor: scan cursor (main.py:66)
    results,        \* extractor: captured arrays (main.py:63)
    idx,            \* extractor: marker position of the last iteration (main.py:69)
    regions,        \* extractor: history, the (array_start, i+1) of each slice taken at main.py:91
    epc,            \* extractor: "loop" | "no_marker" | "unclosed" (how the loop ended)
    product_info,   \* the module-level product_info (main.py:55)
    sample_file,    \* contents of assets/test_product1.txt, None when it cannot be read
    azure_env,      \* whether the three AZURE_OPENAI_* variables are set
    turn,           \* the message request: "IDLE" | "AWAITING_COMPLETION" | "COMPLETED" | "FALLBACK"
                    \*   ("FAILED" would be a request whose handler raised before the try block)
    message,        \* send_message: payload.message.message of the request
    user_text,      \* send_message: local user_text after augmentation (the prompt)
    display,        \* send_message: local display
    file_opened,    \* send_message: whether this request reached open() at main.py:335
    calls,          \* send_message: invocations of chat_completion by this request
    outcome,        \* send_message: which branch of the try block was taken
    ai_reply,       \* send_message: local ai_reply, PyNone while unassigned
    request,        \* send_message: the passthrough fields of payload.message
    response,       \* the response returned by the last finished message request
    hook,           \* the last /product request and its status, while it is the latest request
    info_source,    \* history: which handler wrote product_info last
    fallback_cached, \* history: some message request has stored the fallback groups
    previous,       \* history: the message request answered just before this one, if it fell back
    run,            \* event loop: the coroutine that is running, statement by statement
    parked          \* event loop: the coroutines suspended at an await

xvars == <<text, start, results, idx, regions, epc>>

svars == <<product_info, sample_file, azure_env, turn, message, request, user_text, display,
           file_opened, calls, outcome, ai_reply, response, hook, info_source,
           fallback_cached, previous>>

cvars == <<run, parked>>

vars == <<xvars, svars, cvars>>

----------------------------------------------------------------------------
(* Bounds *)

MaxLen == 8         \* longest text handed to the extractor under study
MaxChunks == 2      \* longest /product body, in chunks (see Chunks)
MaxMessageLen == 1  \* longest user message
MaxTasks == 2       \* requests in flight on the event loop at one time
MaxReplyLen == 2    \* longest completion text

----------------------------------------------------------------------------
(* Python string helpers *)

Min(S) == CHOOSE m \in S : \A o \in S : m <= o

\* text[i]
CharAt(t, i) == t[i + 1]

\* text[a:b] for 0 <= a <= b <= len(text)
Slice(t, a, b) == SubSeq(t, a + 1, b)

\* str.find(sub, from): lowest index >= from where sub occurs, else -1
Find(t, sub, from) ==
    LET cands == { i \in from .. (Len(t) - Len(sub)) :
                      Slice(t, i, i + Len(sub)) = sub }
    IN  IF cands = {} THEN -1 ELSE Min(cands)

----------------------------------------------------------------------------
(* extract_specification_groups_from_text, main.py:57-99 *)

search_term == <<"S", "[", "{">>

\* The inner while loop (main.py:83-97) entered with index i and the given
\* bracket_count: the index of the ']' that brings the count to zero, or -1
\* when the loop runs off the end of the text (the while-else branch).
RECURSIVE ScanClose(_, _, _)
ScanClose(t, i, bracket_count) ==
    IF ~(i < Len(t)) THEN -1
    ELSE LET ch == CharAt(t, i) IN
         IF ch = "[" THEN ScanClose(t, i + 1, bracket_count + 1)
         ELSE IF ch = "]"
              THEN IF bracket_count - 1 = 0 THEN i
                   ELSE ScanClose(t, i + 1, bracket_count - 1)
              ELSE ScanClose(t, i + 1, bracket_count)

\* OuterIteration with the capture cut one short (text[array_start:i])
OuterIteration_ShortSlice(t, from, res) ==
    LET i0 == Find(t, search_term, from) IN
    IF i0 = -1
    THEN [how |-> "no_marker", start |-> from, results |-> res, idx |-> i0,
         span |-> <<>>]
    ELSE LET array_start == Find(t, <<"[">>, i0)
             close == ScanClose(t, array_start, 0) IN
         IF close = -1
         THEN [how |-> "unclosed", start |-> from, results |-> res, idx |-> i0,
              span |-> <<>>]
         ELSE [how |-> "capture", start |-> close + 1,
               results |-> Append(res, Slice(t, array_start, close)),
               idx |-> i0,
               span |-> <<array_start, close + 1>>]

\* OuterIteration that steps over an unclosed occurrence and scans on
OuterIteration_SkipUnclosed(t, from, res) ==
    LET i0 == Find(t, search_term, from) IN
    IF i0 = -1
    THEN [how |-> "no_marker", start |-> from, results |-> res, idx |-> i0,
         span |-> <<>>]
    ELSE LET array_start == Find(t, <<"[">>, i0)
             close == ScanClose(t, array_start, 0) IN
         IF close = -1
         THEN [how |-> "skip", start |-> i0 + Len(search_term),
               results |-> res, idx |-> i0,
               span |-> <<>>]
         ELSE [how |-> "capture", start |-> close + 1,
               results |-> Append(res, Slice(t, array_start, close + 1)),
               idx |-> i0,
               span |-> <<array_start, close + 1>>]

\* OuterIteration that looks for the opening "[{" alone, without the key
OuterIteration_BracketOnly(t, from, res) ==
    LET i0 == Find(t, <<"[", "{">>, from) IN
    IF i0 = -1
    THEN [how |-> "no_marker", start |-> from, results |-> res, idx |-> i0,
          span |-> <<>>]
    ELSE LET array_start == Find(t, <<"[">>, i0)
             close == ScanClose(t, array_start, 0) IN
         IF close = -1
         THEN [how |-> "unclosed", start |-> from, results |-> res, idx |-> i0,
               span |-> <<>>]
         ELSE [how |-> "capture", start |-> close + 1,
               results |-> Append(res, Slice(t, array_start, close + 1)),
               idx |-> i0,
               span |-> <<array_start, close + 1>>]

\* OuterIteration that, after a capture, moves the cursor past the marker
\* only (as the `continue` branch does) instead of past the array
OuterIteration_RescanInside(t, from, res) ==
    LET i0 == Find(t, search_term, from) IN
    IF i0 = -1
    THEN [how |-> "no_marker", start |-> from, results |-> res, idx |-> i0,
          span |-> <<>>]
    ELSE LET array_start == Find(t, <<"[">>, i0)
             close == ScanClose(t, array_start, 0) IN
         IF close = -1
         THEN [how |-> "unclosed", start |-> from, results |-> res, idx |-> i0,
               span |-> <<>>]
         ELSE [how |-> "capture", start |-> i0 + Len(search_term),
               results |-> Append(res, Slice(t, array_start, close + 1)),
               idx |-> i0,
               span |-> <<array_start, close + 1>>]

\* OuterIteration that forgets `start = i + 1` after a capture
OuterIteration_CursorKept(t, from, res) ==
    LET i0 == Find(t, search_term, from) IN
    IF i0 = -1
    THEN [how |-> "no_marker", start |-> from, results |-> res, idx |-> i0,
          span |-> <<>>]
    ELSE LET array_start == Find(t, <<"[">>, i0)
             close == ScanClose(t, array_start, 0) IN
         IF close = -1
         THEN [how |-> "unclosed", start |-> from, results |-> res, idx |-> i0,
               span |-> <<>>]
         ELSE [how |-> "capture", start |-> from,
               results |-> Append(res, Slice(t, array_start, close + 1)),
               idx |-> i0,
               span |-> <<array_start, close + 1>>]

\* OuterIteration that, after a capture, restarts just inside the array
\* (start = array_start + 1 instead of start = i + 1)
OuterIteration_Backtrack(t, from, res) ==
    LET i0 == Find(t, search_term, from) IN
    IF i0 = -1
    THEN [how |-> "no_marker", start |-> from, results |-> res, idx |-> i0,
          span |-> <<>>]
    ELSE LET array_start == Find(t, <<"[">>, i0)
             close == ScanClose(t, array_start, 0) IN
         IF close = -1
         THEN [how |-> "unclosed", start |-> from, results |-> res, idx |-> i0,
               span |-> <<>>]
         ELSE [how |-> "capture", start |-> array_start + 1,
               results |-> Append(res, Slice(t, array_start, close + 1)),
               idx |-> i0,
               span |-> <<array_start, close + 1>>]

\* One pass through the body of `while True` (main.py:68-97), from the cursor
\* and the results so far.  how: "no_marker" (break at 71), "skip" (continue at
\* 78), "capture" (break out of the inner loop at 93), "unclosed" (break at 97).
\* span is the pair (array_start, i+1) of the slice taken at main.py:91.
OuterIteration(t, from, res) ==
    LET i0 == Find(t, search_term, from) IN
    IF i0 = -1
    THEN [how |-> "no_marker", start |-> from, results |-> res, idx |-> i0,
         span |-> <<>>]
    ELSE LET array_start == Find(t, <<"[">>, i0) IN
         IF array_start = -1
         THEN [how |-> "skip", start |-> i0 + Len(search_term),
               results |-> res, idx |-> i0,
               span |-> <<>>]
         ELSE LET close == ScanClose(t, array_start, 0) IN
              IF close = -1
              THEN [how |-> "unclosed", start |-> from, results |-> res, idx |-> i0,
                   span |-> <<>>]
              ELSE [how |-> "capture", start |-> close + 1,
                    results |-> Append(res, Slice(t, array_start, close + 1)),
                    idx |-> i0,
                    span |-> <<array_start, close + 1>>]

\* The whole loop from a cursor: the value returned at main.py:99.
RECURSIVE ExtractLoop(_, _, _)
ExtractLoop(t, from, res) ==
    LET it == OuterIteration(t, from, res) IN
    IF it.how \in {"no_marker", "unclosed"} THEN it.results
    ELSE ExtractLoop(t, it.start, it.results)

extract_specification_groups_from_text(t) == ExtractLoop(t, 0, <<>>)

----------------------------------------------------------------------------
(* Python values *)

\* the Optional[str] None, as a value no string of the model equals
None == <<"None">>

\* truth value of an Optional[str] (main.py:329): None and "" are falsy
Truthy(v) == v # None /\ v # <<>>

\* values of other types, as json.loads and chat_completion return them
PyNone == [type |-> "NoneType"]
PyStr(s) == [type |-> "str", str |-> s]
PyInt(n) == [type |-> "int", int |-> n]

PyTruthy(v) ==
    CASE v.type = "str" -> v.str # <<>>
      [] v.type = "int" -> v.int # 0
      [] OTHER -> FALSE

\* ",".join(list) (main.py:315, 340)
RECURSIVE Join(_)
Join(res) ==
    IF res = <<>> THEN <<>>
    ELSE IF Len(res) = 1 THEN res[1]
    ELSE res[1] \o <<",">> \o Join(Tail(res))

Whitespace == {" "}

RECURSIVE lstrip(_)
lstrip(s) ==
    IF s # <<>> /\ Head(s) \in Whitespace THEN lstrip(Tail(s)) ELSE s

RECURSIVE rstrip(_)
rstrip(s) ==
    IF s # <<>> /\ s[Len(s)] \in Whitespace THEN rstrip(SubSeq(s, 1, Len(s) - 1)) ELSE s

\* strip that trims the left side only
strip_LeftOnly(s) == lstrip(s)

\* str.strip() (main.py:365)
strip(s) == rstrip(lstrip(s))

----------------------------------------------------------------------------
(* product_hook, main.py:266-317 *)

\* Tokens of a JSON request body: the opening of an object whose only key is
\* responseBody, the closing brace, the quote of a string literal, and "eS",
\* the marker prefix as it is written inside a JSON string literal
\* (\"specificationGroups\": with its quotes escaped).
RB_OPEN == "{\"responseBody\":"
OBJ_CLOSE == "}"
QUOTE == "\""

\* the characters of a string literal, decoded (\" becomes ")
Unescape(body) == [k \in 1..Len(body) |-> IF body[k] = "eS" THEN "S" ELSE body[k]]

\* the characters of a string, as written inside a string literal
Escape(str) == [k \in 1..Len(str) |-> IF str[k] = "S" THEN "eS" ELSE str[k]]

IsStringLiteral(v) ==
    /\ Len(v) >= 2
    /\ v[1] = QUOTE
    /\ v[Len(v)] = QUOTE
    /\ \A k \in 2..(Len(v) - 1) : v[k] \in {"eS", "[", "{", "]", "x"}

\* json.loads under the try of main.py:278-281 followed by the isinstance test
\* of 283-284, on the bodies of Payloads: whether the body parses to a dict,
\* whether the dict has the key responseBody, and its value.  A body that is not
\* of the form {"responseBody": <string | 5 | null>} is, over these tokens, no
\* JSON object (it fails to parse or parses to a list).
json_loads(t) ==
    LET notdict == [dict |-> FALSE, has_rb |-> FALSE, rb |-> PyNone] IN
    IF Len(t) >= 3 /\ t[1] = RB_OPEN /\ t[Len(t)] = OBJ_CLOSE
    THEN LET v == SubSeq(t, 2, Len(t) - 1) IN
         IF IsStringLiteral(v)
         THEN [dict |-> TRUE, has_rb |-> TRUE,
               rb |-> PyStr(Unescape(SubSeq(v, 2, Len(v) - 1)))]
         ELSE IF v = <<"5">> THEN [dict |-> TRUE, has_rb |-> TRUE, rb |-> PyInt(5)]
         ELSE IF v = <<"null">> THEN [dict |-> TRUE, has_rb |-> TRUE, rb |-> PyNone]
         ELSE notdict
    ELSE notdict

\* ProductHook that adds the new groups to the product_info already there
ProductHook_Accumulate(payload_text, info) ==
    LET payload_obj == json_loads(payload_text)
        response_body == IF payload_obj.dict /\ payload_obj.has_rb
                         THEN payload_obj.rb ELSE PyNone
        arg == IF PyTruthy(response_body) THEN response_body ELSE PyStr(payload_text)
    IN  IF arg.type # "str"
        THEN [status |-> 500, product_info |-> info]
        ELSE LET groups == extract_specification_groups_from_text(arg.str) IN
             [status |-> 200,
              product_info |-> IF Truthy(info) /\ groups # <<>>
                               THEN info \o <<",">> \o Join(groups)
                               ELSE Join(groups)]

\* The handler from its body and the current product_info: the status of the
\* response and the product_info it leaves.  The extractor takes len(text) and
\* calls text.find (main.py:67, 69); every truthy value that is not a str lacks
\* one of the two, so the call at main.py:310 raises, the framework answers
\* 500 and product_info is untouched.
ProductHook(payload_text, info) ==
    LET payload_obj == json_loads(payload_text)
        response_body == IF payload_obj.dict /\ payload_obj.has_rb
                         THEN payload_obj.rb ELSE PyNone
        arg == IF PyTruthy(response_body) THEN response_body ELSE PyStr(payload_text)
    IN  IF arg.type # "str"
        THEN [status |-> 500, product_info |-> info]
        ELSE [status |-> 200,
              product_info |-> Join(extract_specification_groups_from_text(arg.str))]

----------------------------------------------------------------------------
(* send_message, main.py:319-420 *)

\* the f-string of main.py:330 and 341
Augmented(msg, info) ==
    <<"Question:\n">> \o msg \o <<" \n\n Product Info:\n">> \o info

\* Augment that consults the fallback document before product_info
Augment_FallbackFirst(msg, info, file) ==
    LET groups == IF file = None THEN <<>>
                  ELSE extract_specification_groups_from_text(file) IN
    IF groups # <<>>
    THEN [user_text |-> Augmented(msg, Join(groups)), product_info |-> Join(groups),
          file_opened |-> TRUE, cached |-> TRUE,
          raised |-> FALSE]
    ELSE IF Truthy(info)
    THEN [user_text |-> Augmented(msg, info), product_info |-> info,
          file_opened |-> TRUE, cached |-> FALSE,
          raised |-> FALSE]
    ELSE [user_text |-> msg, product_info |-> info,
          file_opened |-> TRUE, cached |-> FALSE,
          raised |-> FALSE]

\* Augment that uses the fallback groups without storing them
Augment_NoStore(msg, info, file) ==
    IF Truthy(info)
    THEN [user_text |-> Augmented(msg, info), product_info |-> info,
          file_opened |-> FALSE, cached |-> FALSE,
          raised |-> FALSE]
    ELSE IF file = None
    THEN [user_text |-> msg, product_info |-> info,
          file_opened |-> TRUE, cached |-> FALSE,
          raised |-> FALSE]
    ELSE LET groups == extract_specification_groups_from_text(file) IN
         IF groups # <<>>
         THEN [user_text |-> Augmented(msg, Join(groups)), product_info |-> info,
               file_opened |-> TRUE, cached |-> FALSE,
          raised |-> FALSE]
         ELSE [user_text |-> msg, product_info |-> info,
               file_opened |-> TRUE, cached |-> FALSE,
          raised |-> FALSE]

\* Augment that appends the section even when there is nothing to put in it
Augment_AlwaysWrap(msg, info, file) ==
    IF Truthy(info)
    THEN [user_text |-> Augmented(msg, info), product_info |-> info,
          file_opened |-> FALSE, cached |-> FALSE,
          raised |-> FALSE]
    ELSE LET groups == IF file = None THEN <<>>
                       ELSE extract_specification_groups_from_text(file) IN
         IF groups # <<>>
         THEN [user_text |-> Augmented(msg, Join(groups)), product_info |-> Join(groups),
               file_opened |-> TRUE, cached |-> TRUE,
          raised |-> FALSE]
         ELSE [user_text |-> Augmented(msg, <<>>), product_info |-> info,
               file_opened |-> TRUE, cached |-> FALSE,
          raised |-> FALSE]

\* Augment without the try/except around the fallback: an unreadable file
\* makes the handler raise
Augment_Unguarded(msg, info, file) ==
    IF Truthy(info)
    THEN [user_text |-> Augmented(msg, info), product_info |-> info,
          file_opened |-> FALSE, cached |-> FALSE, raised |-> FALSE]
    ELSE IF file = None
    THEN [user_text |-> msg, product_info |-> info,
          file_opened |-> TRUE, cached |-> FALSE, raised |-> TRUE]
    ELSE LET groups == extract_specification_groups_from_text(file) IN
         IF groups # <<>>
         THEN [user_text |-> Augmented(msg, Join(groups)), product_info |-> Join(groups),
               file_opened |-> TRUE, cached |-> TRUE, raised |-> FALSE]
         ELSE [user_text |-> msg, product_info |-> info,
               file_opened |-> TRUE, cached |-> FALSE, raised |-> FALSE]

\* Augment that assigns the join of the fallback groups even when there are
\* none (the assignment at main.py:340 moved out of its `if`)
Augment_ClearsInfo(msg, info, file) ==
    IF Truthy(info)
    THEN [user_text |-> Augmented(msg, info), product_info |-> info,
          file_opened |-> FALSE, cached |-> FALSE, raised |-> FALSE]
    ELSE IF file = None
    THEN [user_text |-> msg, product_info |-> info,
          file_opened |-> TRUE, cached |-> FALSE, raised |-> FALSE]
    ELSE LET groups == extract_specification_groups_from_text(file) IN
         IF groups # <<>>
         THEN [user_text |-> Augmented(msg, Join(groups)), product_info |-> Join(groups),
               file_opened |-> TRUE, cached |-> TRUE, raised |-> FALSE]
         ELSE [user_text |-> msg, product_info |-> Join(groups),
               file_opened |-> TRUE, cached |-> FALSE, raised |-> FALSE]

\* main.py:323-345: the prompt, the product_info left behind, whether open()
\* was reached, whether the fallback groups were stored, and whether an
\* exception left the block (the try/except Exception at 333-345 catches all
\* that open(), read() and the extraction can raise; 329-330 cannot raise)
Augment(msg, info, file) ==
    IF Truthy(info)
    THEN [user_text |-> Augmented(msg, info), product_info |-> info,
          file_opened |-> FALSE, cached |-> FALSE,
          raised |-> FALSE]
    ELSE IF file = None
    THEN [user_text |-> msg, product_info |-> info,
          file_opened |-> TRUE, cached |-> FALSE,
          raised |-> FALSE]
    ELSE LET groups == extract_specification_groups_from_text(file) IN
         IF groups # <<>>
         THEN [user_text |-> Augmented(msg, Join(groups)), product_info |-> Join(groups),
               file_opened |-> TRUE, cached |-> TRUE,
          raised |-> FALSE]
         ELSE [user_text |-> msg, product_info |-> info,
               file_opened |-> TRUE, cached |-> FALSE,
          raised |-> FALSE]

\* OpenAIClient.__init__ (openai_client.py:21-37) raises ValueError when one of
\* the environment variables is missing
OpenAIClientRaises(env) == ~env

\* TryCompletion whose except branch leaves the prompt out of the echo
TryCompletion_BareEcho(env, call, prompt, shown) ==
    IF OpenAIClientRaises(env)
    THEN [display |-> <<"ECHO2 ">>, turn |-> "FALLBACK",
          calls |-> 0, outcome |-> "client_error", ai_reply |-> PyNone]
    ELSE IF call.raises
    THEN [display |-> <<"ECHO2 ">>, turn |-> "FALLBACK",
          calls |-> 1, outcome |-> "call_raised", ai_reply |-> PyNone]
    ELSE IF PyTruthy(call.value)
    THEN [display |-> strip(call.value.str), turn |-> "COMPLETED",
          calls |-> 1, outcome |-> "text", ai_reply |-> call.value]
    ELSE [display |-> shown, turn |-> "FALLBACK",
          calls |-> 1, outcome |-> "empty", ai_reply |-> call.value]

\* TryCompletion that calls chat_completion a second time after it raised
TryCompletion_Retry(env, call, prompt, shown) ==
    IF OpenAIClientRaises(env)
    THEN [display |-> <<"ECHO2 ">> \o prompt, turn |-> "FALLBACK",
          calls |-> 0, outcome |-> "client_error", ai_reply |-> PyNone]
    ELSE IF call.raises
    THEN [display |-> <<"ECHO2 ">> \o prompt, turn |-> "FALLBACK",
          calls |-> 2, outcome |-> "call_raised", ai_reply |-> PyNone]
    ELSE IF PyTruthy(call.value)
    THEN [display |-> strip(call.value.str), turn |-> "COMPLETED",
          calls |-> 1, outcome |-> "text", ai_reply |-> call.value]
    ELSE [display |-> shown, turn |-> "FALLBACK",
          calls |-> 1, outcome |-> "empty", ai_reply |-> call.value]

\* main.py:348-369 from the display set at 346.  call is what chat_completion
\* (openai_client.py:39-68) does when it is reached: raise, or return a value.
TryCompletion(env, call, prompt, shown) ==
    IF OpenAIClientRaises(env)
    THEN [display |-> <<"ECHO2 ">> \o prompt, turn |-> "FALLBACK",
          calls |-> 0, outcome |-> "client_error", ai_reply |-> PyNone]
    ELSE IF call.raises
    THEN [display |-> <<"ECHO2 ">> \o prompt, turn |-> "FALLBACK",
          calls |-> 1, outcome |-> "call_raised", ai_reply |-> PyNone]
    ELSE IF PyTruthy(call.value)
    THEN [display |-> strip(call.value.str), turn |-> "COMPLETED",
          calls |-> 1, outcome |-> "text", ai_reply |-> call.value]
    ELSE [display |-> shown, turn |-> "FALLBACK",
          calls |-> 1, outcome |-> "empty", ai_reply |-> call.value]

\* Python's `x or d`
Or(x, d) == IF Truthy(x) THEN x ELSE d

\* BuildResponse that copies membershipState without its `or "No"`
BuildResponse_NoDefault(shown, req) ==
    [status |-> 200, displayText |-> shown, dynamicText |-> shown,
     turnId |-> req.turnId,
     membershipState |-> req.membershipState,
     logInState |-> Or(req.logInState, <<"loggedOut">>),
     botSource |-> Or(req.botSource, <<"dfcx">>),
     intentName |-> Or(req.intentName, <<"Default Welcome Intent">>),
     correlationId |-> req.correlationId,
     conversationId |-> req.conversationId]

\* main.py:371-420: the fields that carry the text (373-392), turnId (395),
\* four of the metadata.more fields (398-405), and the two ids (408-409)
BuildResponse(shown, req) ==
    [status |-> 200, displayText |-> shown, dynamicText |-> shown,
     turnId |-> req.turnId,
     membershipState |-> Or(req.membershipState, <<"No">>),
     logInState |-> Or(req.logInState, <<"loggedOut">>),
     botSource |-> Or(req.botSource, <<"dfcx">>),
     intentName |-> Or(req.intentName, <<"Default Welcome Intent">>),
     correlationId |-> req.correlationId,
     conversationId |-> req.conversationId]

\* payload.message of a request: turnId (main.py:169), the Optional[str]
\* fields of MetadataMore (152-159) and of Metadata (164-165)
MessageFields(turnId, more, ids) ==
    [turnId |-> turnId,
     membershipState |-> more, logInState |-> more,
     botSource |-> more, intentName |-> more,
     correlationId |-> ids, conversationId |-> ids]

NoRequest == MessageFields(PyNone, None, None)

NoResponse == [status |-> 0, displayText |-> <<>>, dynamicText |-> <<>>]

\* what the framework answers when a handler raises
ErrorResponse == [status |-> 500, displayText |-> <<>>, dynamicText |-> <<>>]

NoHook == [body |-> <<>>, status |-> 0]

NoPrevious == [turn |-> "IDLE", user_text |-> <<>>, display |-> <<>>]

----------------------------------------------------------------------------
(* Inputs *)

Chunks == { <<"x">>, <<"S", "[", "{", "]">>, <<"S", "[", "{">> }

\* texts made of at most n chunks
RECURSIVE ChunkTexts(_)
ChunkTexts(n) ==
    IF n = 0 THEN { <<>> }
    ELSE ChunkTexts(n - 1) \cup { t \o c : t \in ChunkTexts(n - 1), c \in Chunks }

BodyTexts == ChunkTexts(MaxChunks)

JsonString(str) == <<RB_OPEN, QUOTE>> \o Escape(str) \o <<QUOTE, OBJ_CLOSE>>

\* request bodies of /product: raw text, {"responseBody": "<text>"},
\* {"responseBody": 5} and {"responseBody": null}
Payloads ==
    BodyTexts \cup { JsonString(b) : b \in BodyTexts }
              \cup { <<RB_OPEN, "5", OBJ_CLOSE>>, <<RB_OPEN, "null", OBJ_CLOSE>> }

SampleFiles == { None } \cup ChunkTexts(1)

Messages == UNION { [1..n -> {"h"}] : n \in 0..MaxMessageLen }

Replies == UNION { [1..n -> {"a", " "}] : n \in 0..MaxReplyLen }

\* the passthrough fields of a message request: every optional field absent,
\* every one the empty string, every one set (each its own value)
Requests ==
    { MessageFields(PyInt(1), None, None),
      MessageFields(PyInt(2), <<>>, <<>>),
      [turnId |-> PyInt(3),
       membershipState |-> <<"Yes">>, logInState |-> <<"loggedIn">>,
       botSource |-> <<"web">>, intentName |-> <<"Order Status">>,
       correlationId |-> <<"c">>, conversationId |-> <<"v">>] }

\* what chat_completion may return: message.content (a str or None)
ReturnValues == { PyNone } \cup { PyStr(r) : r \in Replies }

----------------------------------------------------------------------------
(* The server *)

IdleLocals ==
    /\ turn = "IDLE"
    /\ message = <<>>
    /\ user_text = <<>>
    /\ request = NoRequest
    /\ display = <<>>
    /\ file_opened = FALSE
    /\ calls = 0
    /\ outcome = "none"
    /\ ai_reply = PyNone
    /\ response = NoResponse

ExtractorIdle ==
    /\ text = <<>>
    /\ start = 0
    /\ results = <<>>
    /\ idx = -1
    /\ regions = <<>>
    /\ epc = "loop"

\* a request handler in progress: pc is the statement it executes next, arg
\* its input, value/tested/placed/prompt its locals
Coroutine(kind, pc, arg, value, tested, placed, prompt) ==
    [kind |-> kind, pc |-> pc, arg |-> arg, value |-> value,
     tested |-> tested, placed |-> placed, prompt |-> prompt]

NoCoroutine == Coroutine("none", "done", <<>>, None, None, None, <<>>)

LoopIdle ==
    /\ run = NoCoroutine
    /\ parked = <<>>

ServerStart ==
    /\ product_info = None
    /\ IdleLocals
    /\ hook = NoHook
    /\ info_source = "unset"
    /\ fallback_cached = FALSE
    /\ previous = NoPrevious

Init ==
    /\ ServerStart
    /\ sample_file \in SampleFiles
    /\ azure_env \in BOOLEAN
    /\ ExtractorIdle
    /\ LoopIdle

\* POST /product.  The handlers are coroutines of one event loop and
\* send_message never awaits, so no request is served while a message request
\* waits in chat_completion.
product_hook(payload_text) ==
    /\ turn # "AWAITING_COMPLETION"
    /\ LET r == ProductHook(payload_text, product_info) IN
       /\ product_info' = r.product_info
       /\ hook' = [body |-> payload_text, status |-> r.status]
       /\ info_source' = IF r.status = 200 THEN "ingest" ELSE info_source
    /\ turn' = "IDLE"
    /\ message' = <<>>
    /\ request' = NoRequest
    /\ user_text' = <<>>
    /\ display' = <<>>
    /\ file_opened' = FALSE
    /\ calls' = 0
    /\ outcome' = "none"
    /\ ai_reply' = PyNone
    /\ response' = NoResponse
    /\ previous' = NoPrevious
    /\ UNCHANGED <<sample_file, azure_env, fallback_cached, xvars, cvars>>

\* POST .../message up to the try block: main.py:320-346
send_message_begin(msg, req) ==
    /\ turn # "AWAITING_COMPLETION"
    /\ LET a == Augment(msg, product_info, sample_file) IN
       /\ message' = msg
       /\ request' = req
       /\ user_text' = a.user_text
       /\ product_info' = a.product_info
       /\ file_opened' = a.file_opened
       /\ display' = <<"ECHO1 ">> \o a.user_text
       /\ info_source' = IF a.cached THEN "fallback" ELSE info_source
       /\ fallback_cached' = (fallback_cached \/ a.cached)
       /\ turn' = IF a.raised THEN "FAILED" ELSE "AWAITING_COMPLETION"
       /\ outcome' = IF a.raised THEN "none" ELSE "pending"
       /\ response' = IF a.raised THEN ErrorResponse ELSE NoResponse
    /\ calls' = 0
    /\ ai_reply' = PyNone
    /\ hook' = NoHook
    /\ previous' = IF turn = "FALLBACK"
                   THEN [turn |-> turn, user_text |-> user_text, display |-> display]
                   ELSE NoPrevious
    /\ UNCHANGED <<sample_file, azure_env, xvars, cvars>>

\* the rest of the handler, main.py:348-420, for one behaviour of the client
Finish(call) ==
    /\ turn = "AWAITING_COMPLETION"
    /\ LET r == TryCompletion(azure_env, call, user_text, display) IN
       /\ display' = r.display
       /\ turn' = r.turn
       /\ calls' = r.calls
       /\ outcome' = r.outcome
       /\ ai_reply' = r.ai_reply
       /\ response' = BuildResponse(r.display, request)
    /\ UNCHANGED <<product_info, sample_file, azure_env, message, request, user_text,
                   file_opened, hook, info_source, fallback_cached, previous, xvars, cvars>>

\* OpenAIClient() raises: chat_completion is never reached
completion_client_error ==
    /\ OpenAIClientRaises(azure_env)
    /\ Finish([raises |-> TRUE, value |-> PyNone])

\* chat_completion raises (openai_client.py:52)
completion_raises ==
    /\ ~OpenAIClientRaises(azure_env)
    /\ Finish([raises |-> TRUE, value |-> PyNone])

\* chat_completion returns (openai_client.py:61-68)
completion_returns(value) ==
    /\ ~OpenAIClientRaises(azure_env)
    /\ Finish([raises |-> FALSE, value |-> value])

Completion ==
    \/ completion_client_error
    \/ completion_raises
    \/ \E value \in ReturnValues : completion_returns(value)

Next ==
    \/ \E payload_text \in Payloads : product_hook(payload_text)
    \/ \E msg \in Messages, req \in Requests : send_message_begin(msg, req)
    \/ completion_client_error
    \/ completion_raises
    \/ \E value \in ReturnValues : completion_returns(value)

Spec == Init /\ [][Next]_vars

\* a request that has entered the try block gets its outcome: the call returns
\* or raises (the transport's timeout raises)
FairSpec == Spec /\ WF_vars(Completion)

----------------------------------------------------------------------------
(* The two handlers as coroutines of one event loop, statement by statement *)

\* The statement at which a handler awaits, and so may be suspended while
\* other requests run: product_hook awaits request.body() (main.py:274);
\* send_message has no await (chat_completion is an ordinary call,
\* main.py:358).
AwaitsAt_BeforeBuild(kind, pc) ==
    \/ kind = "product" /\ pc = "body"
    \/ kind = "message" /\ pc = "build"

AwaitsAt(kind, pc) ==
    kind = "product" /\ pc = "body"

\* request bodies of /product used here: raw text with and without groups, a
\* JSON wrapper, and the body on which the handler raises
LoopPayloads ==
    ChunkTexts(1) \cup { JsonString(<<"S", "[", "{", "]">>), <<RB_OPEN, "5", OBJ_CLOSE>> }

InFlight == Len(parked) + (IF run = NoCoroutine THEN 0 ELSE 1)

\* the running coroutine moves on to co: it is suspended when co stands at an
\* await, it leaves the loop when co is done
Proceed(co) ==
    IF co.pc = "done"
    THEN run' = NoCoroutine /\ parked' = parked
    ELSE IF AwaitsAt(co.kind, co.pc)
    THEN run' = NoCoroutine /\ parked' = Append(parked, co)
    ELSE run' = co /\ parked' = parked

\* the loop starts a handler for a new request (main.py:267, 320)
loop_accept(kind, arg) ==
    /\ run = NoCoroutine
    /\ InFlight < MaxTasks
    /\ Proceed(Coroutine(kind, IF kind = "product" THEN "body" ELSE "test",
                         arg, None, None, None, <<>>))
    /\ UNCHANGED <<xvars, svars>>

\* the loop resumes a suspended handler; request.body() hands product_hook
\* its body (main.py:274)
loop_resume(i, payload_text) ==
    /\ run = NoCoroutine
    /\ i \in 1..Len(parked)
    /\ run' = IF parked[i].kind = "product"
              THEN [parked[i] EXCEPT !.pc = "extract", !.arg = payload_text]
              ELSE parked[i]
    /\ parked' = SubSeq(parked, 1, i - 1) \o SubSeq(parked, i + 1, Len(parked))
    /\ UNCHANGED <<xvars, svars>>

\* product_hook, main.py:276-310: decode and extract; a raise ends the handler
product_extract ==
    /\ run.kind = "product" /\ run.pc = "extract"
    /\ LET r == ProductHook(run.arg, product_info) IN
       Proceed(IF r.status = 200
               THEN [run EXCEPT !.pc = "assign", !.value = r.product_info]
               ELSE [run EXCEPT !.pc = "done"])
    /\ UNCHANGED <<xvars, svars>>

\* product_hook, main.py:313-317: the one assignment to product_info
product_assign ==
    /\ run.kind = "product" /\ run.pc = "assign"
    /\ product_info' = run.value
    /\ Proceed([run EXCEPT !.pc = "done"])
    /\ UNCHANGED <<sample_file, azure_env, turn, message, request, user_text,
                   display, file_opened, calls, outcome, ai_reply, response,
                   hook, info_source, fallback_cached, previous, xvars>>

\* send_message, main.py:329: `if product_info:`
message_test ==
    /\ run.kind = "message" /\ run.pc = "test"
    /\ Proceed([run EXCEPT !.pc = "build", !.tested = product_info])
    /\ UNCHANGED <<xvars, svars>>

\* send_message, main.py:330 when the test was true, 332-345 when it was false
message_build ==
    /\ run.kind = "message" /\ run.pc = "build"
    /\ IF Truthy(run.tested)
       THEN /\ Proceed([run EXCEPT !.pc = "call", !.placed = product_info,
                                   !.prompt = Augmented(run.arg, product_info)])
            /\ product_info' = product_info
       ELSE LET a == Augment(run.arg, run.tested, sample_file) IN
            /\ product_info' = IF a.cached THEN a.product_info ELSE product_info
            /\ Proceed([run EXCEPT !.pc = "call", !.prompt = a.user_text,
                                   !.placed = IF a.cached THEN a.product_info ELSE None])
    /\ UNCHANGED <<sample_file, azure_env, turn, message, request, user_text,
                   display, file_opened, calls, outcome, ai_reply, response,
                   hook, info_source, fallback_cached, previous, xvars>>

\* send_message, main.py:346-420: the completion and the response, which read
\* and write locals only
message_call ==
    /\ run.kind = "message" /\ run.pc = "call"
    /\ Proceed([run EXCEPT !.pc = "done"])
    /\ UNCHANGED <<xvars, svars>>

LoopNext ==
    \/ loop_accept("product", <<>>)
    \/ \E msg \in Messages : loop_accept("message", msg)
    \/ \E i \in 1..MaxTasks, payload_text \in LoopPayloads : loop_resume(i, payload_text)
    \/ product_extract
    \/ product_assign
    \/ message_test
    \/ message_build
    \/ message_call

LoopSpec == Init /\ [][LoopNext]_vars

----------------------------------------------------------------------------
(* The extractor run one loop iteration at a time on every bounded text *)

Alphabet == {"S", "[", "{", "]", "x"}

\* the texts of length n
Texts(n) == [1..n -> Alphabet]

ExtractInit ==
    /\ \E n \in 0..MaxLen : text \in Texts(n)
    /\ start = 0
    /\ results = <<>>
    /\ idx = -1
    /\ regions = <<>>
    /\ epc = "loop"
    /\ ServerStart
    /\ sample_file = None
    /\ azure_env = FALSE
    /\ LoopIdle

\* main.py:69-71: no further marker, the loop ends
ExtractNoMarker ==
    /\ epc = "loop"
    /\ LET it == OuterIteration(text, start, results) IN
       /\ it.how = "no_marker"
       /\ epc' = "no_marker"
       /\ idx' = it.idx
       /\ UNCHANGED <<text, start, results, regions, svars, cvars>>

\* main.py:95-97: the text ended inside the array, the loop ends
ExtractUnclosed ==
    /\ epc = "loop"
    /\ LET it == OuterIteration(text, start, results) IN
       /\ it.how = "unclosed"
       /\ epc' = "unclosed"
       /\ idx' = it.idx
       /\ UNCHANGED <<text, start, results, regions, svars, cvars>>

\* main.py:76-78 and 89-93: the iteration moves the cursor and loops again
ExtractAdvance ==
    /\ epc = "loop"
    /\ LET it == OuterIteration(text, start, results) IN
       /\ it.how \in {"skip", "capture"}
       /\ start' = it.start
       /\ results' = it.results
       /\ idx' = it.idx
       /\ regions' = IF it.how = "capture" THEN Append(regions, it.span) ELSE regions
       /\ UNCHANGED <<text, epc, svars, cvars>>

ExtractNext == ExtractNoMarker \/ ExtractUnclosed \/ ExtractAdvance

ExtractSpec == ExtractInit /\ [][ExtractNext]_vars

ExtractDone == epc # "loop"

----------------------------------------------------------------------------
(* What a text contains, stated without the scan *)

\* positions where search_term occurs
Occurrences(t) ==
    { p \in 0 .. (Len(t) - Len(search_term)) :
         Slice(t, p, p + Len(search_term)) = search_term }

\* '[' minus ']' among t[a..b], both ends included
BracketDepth(t, a, b) ==
    Cardinality({ j \in a..b : CharAt(t, j) = "[" })
      - Cardinality({ j \in a..b : CharAt(t, j) = "]" })

\* the '[' of the marker occurrence at p
ArrayStart(p) == p + 1

\* the ']' that brings the depth counted from the '[' of the occurrence at p
\* back to zero, or -1 when the array is never closed
ArrayEnd(t, p) ==
    LET ends == { j \in ArrayStart(p) .. (Len(t) - 1) :
                     BracketDepth(t, ArrayStart(p), j) = 0 }
    IN  IF ends = {} THEN -1 ELSE Min(ends)

WellFormed(t, p) == ArrayEnd(t, p) # -1

AllWellFormed(t) == \A p \in Occurrences(t) : WellFormed(t, p)

\* no occurrence lies inside the array of another one
NonNested(t) ==
    \A p, q \in Occurrences(t) : p < q => ArrayEnd(t, p) < q

\* 1-based rank of the occurrence at p among the occurrences, by position
Rank(t, p) == Cardinality({ q \in Occurrences(t) : q <= p })

\* the results are, in order, the arrays of all the occurrences of t
CapturesEveryOccurrence(t, res) ==
    /\ Len(res) = Cardinality(Occurrences(t))
    /\ \A p \in Occurrences(t) :
          res[Rank(t, p)] = Slice(t, ArrayStart(p), ArrayEnd(t, p) + 1)

Unclosed(t) == { p \in Occurrences(t) : ~WellFormed(t, p) }

----------------------------------------------------------------------------
(* Claims about the extractor, checked under ExtractSpec *)

\* C1 (as stated): for every text whose k marker occurrences are each followed
\* by a bracket-balanced array, the extractor returns exactly k strings, the
\* i-th being the substring from the '[' of the i-th occurrence to its
\* matching ']'.
C1_AsStated ==
    (ExtractDone /\ AllWellFormed(text)) => CapturesEveryOccurrence(text, results)

\* C1 (amended): the same, for texts in which no marker occurrence lies inside
\* the array of another occurrence.
C1_NonNestedOccurrencesCaptured ==
    (ExtractDone /\ AllWellFormed(text) /\ NonNested(text))
        => CapturesEveryOccurrence(text, results)

\* two separate occurrences in surrounding text, both captured
C1_Witness ==
    /\ ExtractDone /\ AllWellFormed(text) /\ NonNested(text)
    /\ Cardinality(Occurrences(text)) = 2
    /\ Len(results) = 2

\* C2: when an occurrence's array is never closed, the scan ends there and the
\* result is exactly what was captured before that occurrence: what the
\* extractor returns on the text cut off at that occurrence.
C2_UnclosedStopsScan ==
    (ExtractDone /\ Unclosed(text) # {}) =>
        /\ epc = "unclosed"
        /\ idx = Min(Unclosed(text))
        /\ results = extract_specification_groups_from_text(Slice(text, 0, idx))
        /\ \A k \in 1..Len(results) : Len(results[k]) <= idx

\* an array captured, then an occurrence that is never closed
C2_Witness ==
    /\ epc = "unclosed"
    /\ Len(results) = 1
    /\ idx > 0

\* the occurrence at p lies inside the array of an earlier occurrence
Nested(t, p) ==
    \E q \in Occurrences(t) : q < p /\ WellFormed(t, q) /\ p < ArrayEnd(t, q)

\* the occurrences the scan is to capture: closed, outside every earlier
\* array, and before the first occurrence that is never closed
Captured(t) ==
    { p \in Occurrences(t) :
         /\ WellFormed(t, p)
         /\ ~Nested(t, p)
         /\ \A u \in Unclosed(t) : p < u }

\* C16: on the empty text, and on any text with no occurrence of the marker,
\* the extractor returns an empty sequence (and leaves by the `break` taken
\* when find() answers -1).
C16_NoMarkerNoResults ==
    Occurrences(text) = {} =>
        /\ extract_specification_groups_from_text(text) = <<>>
        /\ ExtractDone => (results = <<>> /\ epc = "no_marker")

\* a scan that ended on a text with brackets but no marker
C16_Witness ==
    /\ ExtractDone
    /\ Occurrences(text) = {}
    /\ Find(text, <<"[", "{">>, 0) # -1
    /\ Find(text, <<"]">>, 0) # -1
    /\ results = <<>>

\* C17: a marker occurrence inside an array already captured is skipped: after
\* a capture the cursor is just past the closing ']' of the captured array, and
\* the results at the end are the arrays of the occurrences outside every
\* earlier array, one each, in order; a nested occurrence adds none.
C17_NestedOccurrenceSkipped ==
    /\ (epc = "loop" /\ results # <<>>) => start = ArrayEnd(text, idx) + 1
    /\ ExtractDone =>
          LET cap == Captured(text) IN
          /\ Len(results) = Cardinality(cap)
          /\ \A p \in cap :
                results[Cardinality({ q \in cap : q <= p })]
                    = Slice(text, ArrayStart(p), ArrayEnd(text, p) + 1)

\* an occurrence nested in a captured array, and a single result
C17_Witness ==
    /\ ExtractDone
    /\ \E p \in Occurrences(text) : Nested(text, p)
    /\ Len(results) = 1
    /\ Find(results[1], search_term, 0) # -1

\* C18: the scan terminates on every text: each iteration of the outer loop
\* either ends the scan or moves the cursor strictly forward, and the cursor
\* never passes the end of the text, so there are at most Len(text) iterations
\* and as many results.
C18_EachIterationEndsOrAdvances ==
    /\ [][epc = "loop" => (epc' # "loop" \/ start' > start)]_vars
    /\ [](0 <= start /\ start <= Len(text) /\ Len(results) <= Len(text))

\* a scan that ended after two iterations moved the cursor forward
C18_Witness ==
    /\ ExtractDone
    /\ Len(regions) = 2
    /\ start = Len(text)

\* C19: the strings returned are regions of the text that do not overlap, and
\* they appear in the result in increasing order of their start position.
C19_ResultsDisjointAndOrdered ==
    /\ Len(regions) = Len(results)
    /\ \A k \in 1..Len(regions) :
          /\ 0 <= regions[k][1] /\ regions[k][1] < regions[k][2]
          /\ regions[k][2] <= Len(text)
          /\ results[k] = Slice(text, regions[k][1], regions[k][2])
    /\ \A j, k \in 1..Len(regions) : j < k => regions[j][2] <= regions[k][1]

\* two arrays captured with text between them
C19_Witness ==
    /\ ExtractDone
    /\ Len(results) = 2
    /\ regions[1][2] < regions[2][1]

----------------------------------------------------------------------------
(* Claims about a message request, checked under Spec and FairSpec *)

Terminal == {"COMPLETED", "FALLBACK"}

Failures == {"client_error", "call_raised", "empty"}

\* a message request starts in this step
BeginStep == turn # "AWAITING_COMPLETION" /\ turn' = "AWAITING_COMPLETION"

\* the groups of the bundled fallback document, none when it cannot be read
FallbackGroups ==
    IF sample_file = None THEN <<>>
    ELSE extract_specification_groups_from_text(sample_file)

\* C3: whichever way the completion fails (the client cannot be built, the call
\* raises, the result is empty), the request is answered with a normal envelope
\* whose displayText is an echo tag followed by the prompt, and contains the
\* user's message.
C3_FailureFallsBackToEcho ==
    outcome \in Failures =>
        /\ turn = "FALLBACK"
        /\ response.status = 200
        /\ response.displayText \in { <<"ECHO1 ">> \o user_text, <<"ECHO2 ">> \o user_text }
        /\ Find(response.displayText, message, 0) # -1
        /\ Find(user_text, message, 0) # -1

\* a failed completion on an augmented prompt of a non-empty message
C3_Witness ==
    /\ outcome = "call_raised"
    /\ message # <<>>
    /\ Truthy(product_info)
    /\ response.status = 200

\* C4: two requests that fall back on the same prompt show the same displayText,
\* whatever the kind of failure.
C4_EchoIndependentOfFailureKind ==
    (turn = "FALLBACK" /\ previous.turn = "FALLBACK" /\ previous.user_text = user_text)
        => previous.display = display

\* d is r without its leading and trailing whitespace
IsTrimOf(d, r) ==
    /\ \E i \in 1..(Len(r) + 1) : \E j \in (i - 1)..Len(r) :
          /\ d = SubSeq(r, i, j)
          /\ \A k \in 1..(i - 1) : r[k] \in Whitespace
          /\ \A k \in (j + 1)..Len(r) : r[k] \in Whitespace
    /\ d # <<>> => (d[1] \notin Whitespace /\ d[Len(d)] \notin Whitespace)

\* C5: when chat_completion returns a non-empty text, displayText and the
\* dynamicText entry are both that text without its surrounding whitespace.
C5_CompletionTextIsTrimmed ==
    (turn \in Terminal /\ ai_reply.type = "str" /\ ai_reply.str # <<>>) =>
        /\ IsTrimOf(response.displayText, ai_reply.str)
        /\ response.dynamicText = response.displayText

\* a reply with whitespace around its text
C5_Witness ==
    /\ turn = "COMPLETED"
    /\ ai_reply.type = "str"
    /\ response.displayText # <<>>
    /\ response.displayText # ai_reply.str

\* C6: a request waiting for its completion ends in COMPLETED (the completion
\* text is shown) or FALLBACK (the echo is shown) and nowhere else; it invokes
\* chat_completion at most once; once ended it is answered and nothing of it
\* changes until another request arrives; and every waiting request ends.
C6_TurnStateMachine ==
    /\ [][ turn = "AWAITING_COMPLETION" =>
             \/ UNCHANGED <<turn, calls, display, response>>
             \/ /\ turn' \in Terminal
                /\ calls' <= 1
                /\ response'.status = 200
                /\ response'.displayText = display'
                /\ (turn' = "COMPLETED") = (outcome' = "text")
                /\ (turn' = "FALLBACK") = (outcome' \in Failures) ]_vars
    /\ [][ (turn \in Terminal /\ turn' \in Terminal) =>
             UNCHANGED <<turn, calls, display, response, outcome>> ]_vars
    /\ [](calls <= 1)
    /\ [](turn = "AWAITING_COMPLETION" => <>(turn \in Terminal))

\* a request that called chat_completion once, saw it fail and was answered
C6_Witness ==
    /\ turn = "FALLBACK"
    /\ calls = 1
    /\ outcome = "call_raised"
    /\ response.status = 200

----------------------------------------------------------------------------
(* Claims about product_info and the prompt, checked under Spec *)

\* the text a /product body is to be mined from, as C7 reads it: the
\* responseBody of an object that has one, the raw body otherwise
ClaimedSource(body) ==
    LET o == json_loads(body) IN
    IF o.dict /\ o.has_rb
    THEN IF o.rb.type = "str" THEN o.rb.str ELSE <<>>
    ELSE body

\* C7: after a /product request, product_info is the comma-joined extraction
\* from the request's responseBody when the body is an object that has one,
\* from the raw body otherwise, whatever product_info was before.
C7_IngestReplacesProductInfo ==
    hook.status # 0 =>
        product_info = Join(extract_specification_groups_from_text(ClaimedSource(hook.body)))

\* C8: when the latest /product request yielded groups, the prompt of the next
\* message request is the message (under its "Question:" heading) followed by
\* the "Product Info" section holding those groups joined with ',', and the
\* fallback document is not opened.
C8_LiveProductInfoAugmentsPrompt ==
    [][ LET groups == extract_specification_groups_from_text(ClaimedSource(hook.body)) IN
        (BeginStep /\ hook.status = 200 /\ groups # <<>>) =>
            /\ user_text' = <<"Question:\n">> \o message'
                              \o <<" \n\n Product Info:\n">> \o Join(groups)
            /\ ~file_opened'
            /\ product_info' = product_info ]_vars

\* two ingested groups in the prompt while the fallback document has groups too
C8_Witness ==
    /\ turn = "AWAITING_COMPLETION"
    /\ info_source = "ingest"
    /\ message # <<>>
    /\ FallbackGroups # <<>>
    /\ ~file_opened
    /\ Find(user_text, <<"]", ",", "[">>, 0) # -1

\* a request that finds no product info and groups in the fallback document
\* puts them in its prompt and stores them in product_info
CachesFallback ==
    (BeginStep /\ ~Truthy(product_info) /\ FallbackGroups # <<>>) =>
        /\ product_info' = Join(FallbackGroups)
        /\ user_text' = <<"Question:\n">> \o message'
                          \o <<" \n\n Product Info:\n">> \o Join(FallbackGroups)

\* a request reuses the stored fallback groups and does not open the file
ReusesCache ==
    /\ ~file_opened'
    /\ product_info' = Join(FallbackGroups)
    /\ user_text' = <<"Question:\n">> \o message'
                      \o <<" \n\n Product Info:\n">> \o Join(FallbackGroups)

\* C9 (as stated): once a request has stored the fallback groups, every later
\* request of the process reuses them without opening the file.
C9_AsStated ==
    [][ CachesFallback /\ ((BeginStep /\ fallback_cached) => ReusesCache) ]_vars

\* C9 (amended): once a request has stored the fallback groups, every later
\* request reuses them without opening the file, for as long as no /product
\* request has replaced product_info since.
C9_CachedFallbackReusedUntilIngest ==
    [][ CachesFallback /\ ((BeginStep /\ info_source = "fallback") => ReusesCache) ]_vars

\* a later request running on the stored fallback groups
C9_Witness ==
    /\ turn = "AWAITING_COMPLETION"
    /\ info_source = "fallback"
    /\ fallback_cached
    /\ ~file_opened
    /\ previous.turn = "FALLBACK"

\* C10: with no product info ingested and a fallback document that is missing,
\* unreadable or without groups, the prompt is the user's message unchanged.
C10_NoContextPromptUnchanged ==
    (turn # "IDLE" /\ info_source = "unset" /\ FallbackGroups = <<>>) =>
        /\ user_text = message
        /\ product_info = None

\* a request on a readable fallback document that holds no groups
C10_Witness ==
    /\ turn = "AWAITING_COMPLETION"
    /\ info_source = "unset"
    /\ sample_file # None
    /\ FallbackGroups = <<>>
    /\ file_opened
    /\ message # <<>>
    /\ user_text = message

----------------------------------------------------------------------------
(* Claims about what a message request writes and answers, checked under Spec *)

\* a step of a message request: its start, or its completion
TurnStep == turn' \in {"AWAITING_COMPLETION", "FAILED"} \/ turn = "AWAITING_COMPLETION"

\* C11 (as stated): handling a message request leaves product_info unchanged,
\* whatever the outcome of the request.
C11_AsStated ==
    [][TurnStep => product_info' = product_info]_vars

\* C11 (amended): a message request leaves product_info unchanged, except that
\* a request that finds no live product info and finds groups in the fallback
\* document stores the join of those groups; the completion never writes it.
C11_TurnWritesOnlyFallbackCache ==
    [][TurnStep =>
          \/ product_info' = product_info
          \/ /\ BeginStep
             /\ ~Truthy(product_info)
             /\ FallbackGroups # <<>>
             /\ product_info' = Join(FallbackGroups)]_vars

\* a request answered on ingested product info, which it left in place
C11_Witness ==
    /\ turn \in Terminal
    /\ info_source = "ingest"
    /\ Truthy(product_info)
    /\ user_text = Augmented(message, product_info)

\* C13: building the prompt never raises: the request always reaches the try
\* block, no 500 is answered, and when the fallback document cannot be read
\* or holds no groups the prompt is the unchanged user text.
C13_AugmentationNeverRaises ==
    /\ turn # "FAILED"
    /\ response.status # 500
    /\ (turn # "IDLE" /\ file_opened /\ FallbackGroups = <<>>) => user_text = message
    /\ (turn # "IDLE" /\ file_opened /\ FallbackGroups # <<>>) =>
            user_text = Augmented(message, Join(FallbackGroups))

\* a request answered although the fallback document could not be read
C13_Witness ==
    /\ turn \in Terminal
    /\ sample_file = None
    /\ file_opened
    /\ message # <<>>
    /\ user_text = message
    /\ response.status = 200

\* C20: the displayText of the response to a message request is never the
\* empty string, whatever the completion did and whatever the user text.
C20_DisplayTextNeverEmpty ==
    turn \in Terminal => response.displayText # <<>>

\* the optional metadata fields and the literal each takes when absent
Defaults ==
    [membershipState |-> <<"No">>,
     logInState |-> <<"loggedOut">>,
     botSource |-> <<"dfcx">>,
     intentName |-> <<"Default Welcome Intent">>]

\* C14: in the response to every message request, completed or fallen back,
\* turnId, conversationId and correlationId are those of the request, and each
\* absent optional metadata field carries its fixed default.
C14_PassthroughAndDefaults ==
    turn \in Terminal =>
        /\ response.turnId = request.turnId
        /\ response.conversationId = request.conversationId
        /\ response.correlationId = request.correlationId
        /\ \A f \in DOMAIN Defaults :
              request[f] = None => response[f] = Defaults[f]

\* a request with no optional metadata that fell back, answered with defaults
C14_Witness ==
    /\ turn = "FALLBACK"
    /\ \A f \in DOMAIN Defaults : request[f] = None
    /\ response.intentName = <<"Default Welcome Intent">>
    /\ response.turnId = request.turnId
    /\ request.turnId # PyNone

----------------------------------------------------------------------------
(* Claims about concurrent requests, checked under LoopSpec *)

\* the values a single request can write to product_info, each one whole
WholeValues ==
    { ProductHook(b, None).product_info :
         b \in { c \in LoopPayloads : ProductHook(c, None).status = 200 } }
      \cup { Join(FallbackGroups) }

\* a message request that has built its prompt
Built == run.kind = "message" /\ run.pc = "call"

\* C12: under any interleaving of /product and message requests, product_info
\* is replaced whole and the last write wins: it only ever changes to the one
\* value the writing request computed, whatever it held before; a message
\* request builds its prompt from the value product_info holds at that
\* moment, whole, and the value it tested for presence is the value it placed
\* in the prompt.
C12_AtomicReplaceLastWriteWins ==
    /\ [](product_info = None \/ product_info \in WholeValues)
    /\ [](Built =>
            IF Truthy(run.tested)
            THEN /\ run.placed = run.tested
                 /\ run.placed = product_info
                 /\ run.prompt = <<"Question:\n">> \o run.arg
                                    \o <<" \n\n Product Info:\n">> \o run.tested
            ELSE \/ run.placed = None /\ run.prompt = run.arg
                 \/ /\ run.placed = Join(FallbackGroups)
                    /\ run.placed = product_info
                    /\ run.prompt = <<"Question:\n">> \o run.arg
                                       \o <<" \n\n Product Info:\n">> \o run.placed)
    /\ [][(run.kind = "product" /\ run.pc = "assign")
             => product_info' = ProductHook(run.arg, None).product_info]_vars
    /\ [][product_info' # product_info =>
             \/ run.kind = "product" /\ run.pc = "assign"
             \/ /\ run.kind = "message" /\ run.pc = "build"
                /\ ~Truthy(run.tested)
                /\ product_info' = Join(FallbackGroups)]_vars

\* a message request that built its prompt on ingested product info while
\* another /product request is suspended at its await
C12_Witness ==
    /\ Built
    /\ Truthy(run.tested)
    /\ run.placed = product_info
    /\ Len(parked) = 1
    /\ parked[1].kind = "product"

----------------------------------------------------------------------------
(* Claims about the value of product_info, checked under Spec *)

\* the arrays of the occurrences of t that are closed, outside every earlier
\* array and before the first unclosed occurrence, in order of position
CapturedArrays(t) ==
    LET cap == Captured(t) IN
    [ k \in 1..Cardinality(cap) |->
        LET p == CHOOSE q \in cap : Cardinality({ u \in cap : u <= q }) = k
        IN  Slice(t, ArrayStart(p), ArrayEnd(t, p) + 1) ]

\* the position at which the bracket depth counted from the start of s first
\* returns to zero, or -1
FirstClose(s) ==
    LET ends == { j \in 0 .. (Len(s) - 1) : BracketDepth(s, 0, j) = 0 }
    IN  IF ends = {} THEN -1 ELSE Min(ends)

\* s is zero or more bracket-balanced array literals with a ',' between them
RECURSIVE IsJoinedArrays(_)
IsJoinedArrays(s) ==
    \/ s = <<>>
    \/ /\ CharAt(s, 0) = "["
       /\ LET j == FirstClose(s) IN
          /\ j # -1
          /\ \/ j = Len(s) - 1
             \/ /\ CharAt(s, j + 1) = ","
                /\ Len(s) > j + 2
                /\ IsJoinedArrays(Slice(s, j + 2, Len(s)))

\* the text a /product body is mined from: the string under responseBody when
\* the body is {"responseBody": "<non-empty string>"}, the body itself otherwise
MinedText(body) ==
    LET wrapped == { b \in BodyTexts : b # <<>> /\ body = JsonString(b) }
    IN  IF wrapped = {} THEN body ELSE CHOOSE b \in wrapped : TRUE

\* C21: after any sequence of /product and message requests, product_info is
\* unset, or the empty string, or bracket-balanced array literals joined with
\* ',' that all come from one source: the body of the last /product request
\* that was ingested (answered 200; a request that raises ingests nothing and
\* leaves product_info as it was), or the fallback document; and a message
\* request installs the fallback groups only when product_info is unset or
\* empty.
C21_ProductInfoWholeFromOneSource ==
    /\ [](product_info = None \/ IsJoinedArrays(product_info))
    /\ [](info_source = "unset" => product_info = None)
    /\ [](info_source = "fallback" =>
            /\ sample_file # None
            /\ product_info # <<>>
            /\ product_info = Join(CapturedArrays(sample_file)))
    /\ [](hook.status = 200 =>
            product_info = Join(CapturedArrays(MinedText(hook.body))))
    /\ [][hook'.status = 500 => product_info' = product_info]_vars
    /\ [][(TurnStep /\ product_info' # product_info) =>
             /\ ~Truthy(product_info)
             /\ info_source' = "fallback"]_vars

\* two arrays of one ingested body, installed over cached fallback groups
C21_Witness ==
    /\ hook.status = 200
    /\ info_source = "ingest"
    /\ fallback_cached
    /\ Len(CapturedArrays(MinedText(hook.body))) = 2
    /\ Find(product_info, <<",">>, 0) # -1
    /\ IsJoinedArrays(product_info)

=============================================================================
